---- MODULE Spec2Model ----
(***************************************************************************)
(* Model of compiler/rustc_query_system/src/dep_graph/serialized.rs:       *)
(* the dep-graph encoder (GraphEncoder in its two builds, encode_graph,    *)
(* ordered_recv, encode_node, encode_counts) and the decoder               *)
(* (SerializedDepGraph::decode, edge_targets_from).                        *)
(*                                                                         *)
(* The file is a sequence of bytes.  A descriptor, a fingerprint, a        *)
(* sequence length and an edge index each take one byte (every value of    *)
(* the model is below 128, where LEB128 is one byte); the two trailer      *)
(* integers take ENCODED_SIZE bytes each, least significant byte first.    *)
(***************************************************************************)
EXTENDS Integers, Sequences, FiniteSets, TLC

(* ------------------------------ bounds --------------------------------- *)

\* number of send calls of a session
MaxNodes == 3

\* longest edge list of a record
MaxEdges == 2

\* number of messages the channel hands to ordered_recv when the stage is
\* run on its own
MaxArrivals == 4

\* the threads that call GraphEncoder::send: with three, two messages can
\* overtake a third and reach the channel in decreasing order
Producers == {1, 2, 3}

\* descriptor (DepNode) values, as bytes; a byte that is no descriptor is a
\* malformed record
Kinds == {11, 12}

\* the Fingerprint that goes with a descriptor, as a byte
FingerprintOf(k) == k + 10

(* --------------------------- program constants ------------------------- *)

\* IntEncodedWithFixedSize::ENCODED_SIZE ("The last 16 bytes are the node
\* count and edge count")
ENCODED_SIZE == 8

(* ------------------------------ results -------------------------------- *)

\* FileEncodeResult: Ok(()) or Err(e); e is named by the index of the record
\* whose write failed
Ok == [ok |-> TRUE, err |-> -1]

Err(e) == [ok |-> FALSE, err |-> e]

(* ------------------------------- codec --------------------------------- *)

\* sequences over S of length at most n
RECURSIVE SeqsUpTo(_, _)
SeqsUpTo(S, n) ==
    IF n = 0 THEN {<<>>}
    ELSE LET shorter == SeqsUpTo(S, n - 1)
         IN shorter \cup {Append(s, x) : s \in {t \in shorter : Len(t) = n - 1}, x \in S}

\* IntEncodedWithFixedSize(v).encode: ENCODED_SIZE bytes, little endian
RECURSIVE FixedBytes(_, _)
FixedBytes(v, n) ==
    IF n = 0 THEN <<>> ELSE <<v % 256>> \o FixedBytes(v \div 256, n - 1)

IntEncodedWithFixedSize_encode(v) == FixedBytes(v, ENCODED_SIZE)

\* derive(Encodable) for NodeInfo: node, fingerprint, then edges as a
\* length-prefixed sequence
NodeInfo_encode(n) ==
    <<n.node, n.fingerprint, Len(n.edges)>> \o n.edges

(* ------------------------------- state --------------------------------- *)

VARIABLES
    mode,           \* "sync": cfg(not(parallel_compiler)); "par": cfg(parallel_compiler)
    callers,        \* the threads that call send
    record_graph,   \* GraphEncoder.record_graph is Some
    record_stats,   \* GraphEncoder.record_stats is Some
    counter,        \* GraphEncoder.counter
    pc,             \* per caller: "idle", "assigned" (inside send, after fetch_add), "panicked"
    index,          \* per caller: the index its running send holds
    arg,            \* per caller: the NodeInfo of its running send
    returned,       \* history: the <<index, NodeInfo>> of every send call that returned
    calls,          \* history: the NodeInfo of every send call, in the order of the fetch_add
    encoder,        \* the FileEncoder: the bytes written to the sink
    written,        \* history: what reached the sink, in order: record indices, Trailer
    trailer,        \* history: the <<node_count, edge_count>> given to encode_counts
    first_fail,     \* history: index of the first record whose write failed, or -1
    attempts,       \* history: the indices handed to node.encode, in order
    edge_count,     \* status.1 ("sync"), encode_graph's edge_count ("par")
    result,         \* status.2 ("sync"), the thread's FileEncodeResult ("par")
    chan,           \* the mpsc channel: messages sent and not yet received
    send,           \* GraphEncoder.send: the Sender handles are alive
    thread,         \* the writer: "drain", "recv", "done", "panicked"
    pending,        \* ordered_recv's pending
    expected,       \* ordered_recv's expected
    arrivals,       \* history: per index, how many messages of it recv.recv() returned
    finished,       \* finish: "no", "dropped" (par: send dropped), "returned", "panicked"
    finish_result,  \* what finish returned
    graph,          \* the DepGraphQuery mirror: <<index, node, edges>> pushed
    query_lock,     \* record_graph's lock is held by a with_query callback
    stats,          \* Stats: per kind counters and the totals
    data,           \* the opaque::Decoder's data: the bytes decode reads
    defect,         \* history: how `data` differs from an encoder's file
    decoding,       \* decode: "idle", "trailer", "records", "ok", "err", "panic"
    position,       \* the Decoder's position
    node_count,     \* decode's node_count, as read from the trailer
    edges_hint,     \* decode's edge_count, as read from the trailer
    nodes,          \* decode's nodes
    fingerprints,   \* decode's fingerprints
    edge_list_indices,  \* decode's edge_list_indices
    edge_list_data  \* decode's edge_list_data

encoderVars == <<encoder, written, trailer, first_fail, attempts, graph, stats>>

configVars == <<mode, callers, record_graph, record_stats>>

senderVars == <<counter, pc, index, arg, returned, calls>>

writerVars == <<chan, thread, pending, expected, arrivals>>

graphVars == <<nodes, fingerprints, edge_list_indices, edge_list_data>>

decoderVars == <<data, defect, decoding, position, node_count, edges_hint, graphVars>>

vars == <<configVars, senderVars, encoderVars, writerVars, edge_count, result, send,
          finished, finish_result, query_lock, decoderVars>>

\* the mark of the trailer in `written`
Trailer == -1

\* The environment's write fault of one step: the index of the record whose
\* node.encode fails, Trailer when encode_counts fails, NoFault when nothing
\* fails.
NoFault == Trailer - 1

\* what one step's fault can be when the step writes the records of `msgs`
\* (a sequence of <<index, NodeInfo>>), or the trailer: one of them, or none
FaultsOn(msgs) == {msgs[k][1] : k \in 1..Len(msgs)} \cup {NoFault}

TrailerFaults == {Trailer, NoFault}

NoStats ==
    [stats |-> [k \in Kinds |-> [node_counter |-> 0, edge_counter |-> 0]],
     total_node_count |-> 0, total_edge_count |-> 0]

\* GraphEncoder::new: counter 0, status (encoder, 0, Ok(())), a fresh channel
\* and a spawned writer at the top of ordered_recv
InitEncoder ==
    /\ counter = 0
    /\ pc = [p \in Producers |-> "idle"]
    /\ index = [p \in Producers |-> 0]
    /\ arg = [p \in Producers |-> [node |-> 11, fingerprint |-> 21, edges |-> <<>>]]
    /\ returned = {}
    /\ calls = <<>>
    /\ encoder = <<>>
    /\ written = <<>>
    /\ trailer = <<>>
    /\ first_fail = -1
    /\ attempts = <<>>
    /\ edge_count = 0
    /\ result = Ok
    /\ chan = <<>>
    /\ send = TRUE
    /\ thread = "drain"
    /\ pending = <<>>
    /\ expected = 0
    /\ arrivals = [i \in 0..MaxNodes |-> 0]
    /\ finished = "no"
    /\ finish_result = Ok
    /\ graph = <<>>
    /\ query_lock = FALSE
    /\ stats = NoStats

\* a count read from the trailer: `big` when it is 2^31 or more, and then
\* `top` is its most significant byte and `val` is not used
SmallCount(v) == [big |-> FALSE, top |-> 0, val |-> v]

\* no decode has started
InitDecoder ==
    /\ data = <<>>
    /\ defect = "none"
    /\ decoding = "idle"
    /\ position = 0
    /\ node_count = SmallCount(0)
    /\ edges_hint = SmallCount(0)
    /\ nodes = <<>>
    /\ fingerprints = <<>>
    /\ edge_list_indices = <<>>
    /\ edge_list_data = <<>>

(* ----------------------------- encode_node ----------------------------- *)

\* the encoder-side state encode_node works on, as one value
Io == [encoder |-> encoder, written |-> written, first_fail |-> first_fail,
       attempts |-> attempts, graph |-> graph, stats |-> stats, res |-> Ok]

\* mutant: the total of the edges is not advanced
StatsAdd_kind_only(st, node) ==
    [stats |-> [st.stats EXCEPT ![node.node] =
                    [node_counter |-> @.node_counter + 1,
                     edge_counter |-> @.edge_counter + Len(node.edges)]],
     total_node_count |-> st.total_node_count + 1,
     total_edge_count |-> st.total_edge_count]

\* record_stats: the per-kind counters and the totals
StatsAdd(st, node) ==
    [stats |-> [st.stats EXCEPT ![node.node] =
                    [node_counter |-> @.node_counter + 1,
                     edge_counter |-> @.edge_counter + Len(node.edges)]],
     total_node_count |-> st.total_node_count + 1,
     total_edge_count |-> st.total_edge_count + Len(node.edges)]

\* encode_node: push to the mirror when its lock is taken (`locked`: whether
\* record_graph.lock()/try_lock() gave the lock), count in the statistics,
\* then node.encode(encoder), which fails when the step's fault is on i
encode_node(io, i, node, locked, fault) ==
    LET good == i # fault
    IN [encoder    |-> IF good THEN io.encoder \o NodeInfo_encode(node) ELSE io.encoder,
        written    |-> IF good THEN Append(io.written, i) ELSE io.written,
        first_fail |-> IF ~good /\ io.first_fail = -1 THEN i ELSE io.first_fail,
        attempts   |-> Append(io.attempts, i),
        graph      |-> IF record_graph /\ locked
                       THEN Append(io.graph, <<i, node.node, node.edges>>)
                       ELSE io.graph,
        stats      |-> IF record_stats THEN StatsAdd(io.stats, node) ELSE io.stats,
        res        |-> IF good THEN Ok ELSE Err(i)]

\* mutant: the two counts are written in the other order
encode_counts_swapped(io, nodes_n, edges_n) ==
    [io EXCEPT !.encoder = @ \o IntEncodedWithFixedSize_encode(edges_n)
                             \o IntEncodedWithFixedSize_encode(nodes_n),
               !.written = Append(@, Trailer)]

\* encode_counts: the two fixed-size integers, then flush
encode_counts(io, nodes_n, edges_n) ==
    [io EXCEPT !.encoder = @ \o IntEncodedWithFixedSize_encode(nodes_n)
                             \o IntEncodedWithFixedSize_encode(edges_n),
               !.written = Append(@, Trailer)]

SetIo(io) ==
    /\ encoder' = io.encoder
    /\ written' = io.written
    /\ first_fail' = io.first_fail
    /\ attempts' = io.attempts
    /\ graph' = io.graph
    /\ stats' = io.stats

\* AtomicU32::fetch_add(1): the value returned and the value stored
fetch_add(c) == [old |-> c, new |-> c + 1]

\* encode_counts can fail as well: the step's fault is on the trailer
TrailerResult(fault) == IF fault = Trailer THEN Err(Trailer) ELSE Ok

\* no caller is inside send and no with_query callback runs: what lets a
\* caller give up the GraphEncoder by value
Owned == (\A p \in callers : pc[p] # "assigned") /\ ~query_lock

(* ---------------- GraphEncoder, cfg(not(parallel_compiler)) ------------- *)

\* mutant: the status is overwritten by the result of every write
overwrite_encode_node(res, io, i, node, locked, fault) ==
    encode_node(io, i, node, locked, fault)

\* result.and_then(|()| encode_node(..)): the write is attempted only while
\* the status holds no error
and_then_encode_node(res, io, i, node, locked, fault) ==
    IF res.ok THEN encode_node(io, i, node, locked, fault) ELSE [io EXCEPT !.res = res]

\* send, first statement: counter.fetch_add(1), before the lock is taken
SendSyncFetchAdd(p, node) ==
    /\ mode = "sync" /\ finished = "no"
    /\ pc[p] = "idle"
    /\ counter < MaxNodes
    /\ index' = [index EXCEPT ![p] = fetch_add(counter).old]
    /\ counter' = fetch_add(counter).new
    /\ arg' = [arg EXCEPT ![p] = node]
    /\ calls' = Append(calls, node)
    /\ pc' = [pc EXCEPT ![p] = "assigned"]
    /\ UNCHANGED <<decoderVars, configVars, returned, encoderVars, writerVars, edge_count, result,
                   send, finished, finish_result, query_lock>>

\* send, the rest: under status.lock(), count the edges, write unless an
\* earlier write failed, return the index.  The mirror is pushed to only when
\* try_lock succeeds.
SendSyncLocked(p, fault) ==
    /\ mode = "sync"
    /\ pc[p] = "assigned"
    /\ LET io == and_then_encode_node(result, Io, index[p], arg[p], ~query_lock, fault)
       IN /\ SetIo(io)
          /\ result' = io.res
    /\ edge_count' = edge_count + Len(arg[p].edges)
    /\ returned' = returned \cup {<<index[p], arg[p]>>}
    /\ pc' = [pc EXCEPT ![p] = "idle"]
    /\ UNCHANGED <<decoderVars, configVars, counter, index, arg, calls, trailer, writerVars, send,
                   finished, finish_result, query_lock>>

\* finish: result?, then encode_counts(encoder, counter, edge_count)
FinishSync(fault) ==
    /\ mode = "sync" /\ finished = "no"
    /\ Owned
    /\ finished' = "returned"
    /\ IF result.ok
       THEN /\ trailer' = IF fault # Trailer THEN <<counter, edge_count>> ELSE trailer
            /\ SetIo(IF fault # Trailer THEN encode_counts(Io, counter, edge_count) ELSE Io)
            /\ finish_result' = TrailerResult(fault)
       ELSE /\ finish_result' = result
            /\ UNCHANGED encoderVars
    /\ UNCHANGED <<decoderVars, configVars, senderVars, writerVars, edge_count, result, send,
                   query_lock>>

(* ------------------ GraphEncoder, cfg(parallel_compiler) ---------------- *)

\* send, up to the fetch_add
SendParFetchAdd(p, node) ==
    /\ mode = "par" /\ finished = "no"
    /\ pc[p] = "idle"
    /\ counter < MaxNodes
    /\ index' = [index EXCEPT ![p] = fetch_add(counter).old]
    /\ counter' = fetch_add(counter).new
    /\ arg' = [arg EXCEPT ![p] = node]
    /\ calls' = Append(calls, node)
    /\ pc' = [pc EXCEPT ![p] = "assigned"]
    /\ UNCHANGED <<decoderVars, configVars, returned, encoderVars, writerVars, edge_count, result,
                   send, finished, finish_result, query_lock>>

\* the Receiver is gone once the writer's closure has returned or unwound
ReceiverDropped == thread \in {"done", "panicked"}

\* send, the rest: self.send.send((index, node)).unwrap(); a send to a
\* channel whose Receiver is dropped is an Err, and unwrap panics
SendParChannel(p) ==
    /\ mode = "par"
    /\ pc[p] = "assigned"
    /\ IF ReceiverDropped
       THEN /\ pc' = [pc EXCEPT ![p] = "panicked"]
            /\ UNCHANGED <<chan, returned>>
       ELSE /\ chan' = Append(chan, <<index[p], arg[p]>>)
            /\ returned' = returned \cup {<<index[p], arg[p]>>}
            /\ pc' = [pc EXCEPT ![p] = "idle"]
    /\ UNCHANGED <<decoderVars, configVars, counter, index, arg, calls, encoderVars, thread,
                   pending, expected, arrivals, edge_count, result, send, finished, finish_result,
                   query_lock>>

\* finish, first statement: drop(self.send)
FinishDrop ==
    /\ mode = "par" /\ finished = "no"
    /\ Owned
    /\ send' = FALSE
    /\ finished' = "dropped"
    /\ UNCHANGED <<decoderVars, configVars, senderVars, encoderVars, writerVars, edge_count, result,
                   finish_result, query_lock>>

\* finish, second statement: self.thread.join().unwrap()
FinishJoin ==
    /\ mode = "par" /\ finished = "dropped"
    /\ ReceiverDropped
    /\ IF thread = "panicked"
       THEN finished' = "panicked" /\ UNCHANGED finish_result
       ELSE finished' = "returned" /\ finish_result' = result
    /\ UNCHANGED <<decoderVars, configVars, senderVars, encoderVars, writerVars, edge_count, result,
                   send, query_lock>>

(* --------------------- encode_graph and ordered_recv -------------------- *)

\* insertion of m into a sequence sorted by index, after the entries of the
\* same index (sort_by_key is stable)
RECURSIVE InsertByKey(_, _)
InsertByKey(m, sorted) ==
    IF sorted = <<>> THEN <<m>>
    ELSE IF m[1] < Head(sorted)[1] THEN <<m>> \o sorted
    ELSE <<Head(sorted)>> \o InsertByKey(m, Tail(sorted))

\* mutant: pending is left in arrival order
no_sort(s) == s

\* pending.sort_by_key(|n| n.0)
RECURSIVE sort_by_key(_)
sort_by_key(s) ==
    IF s = <<>> THEN <<>>
    ELSE InsertByKey(s[Len(s)], sort_by_key(SubSeq(s, 1, Len(s) - 1)))

\* mutant: an entry ahead of expected is taken as well
NotBehind(i, exp) == i >= exp

\* mutant: a message of index expected is held back as well
AheadOrEqual(i, exp) == i >= exp

\* whether ordered_recv puts the message of index i in pending
Ahead(i, exp) == i > exp

\* mutant: an entry behind expected is taken as well
NotAhead(i, exp) == i <= exp

\* whether ordered_recv hands the message of index i to f now
InOrder(i, exp) == i = exp

\* mutant: the closure does not count the edges
WriterCall_uncounted(w, m, fault) ==
    [w EXCEPT !.io = encode_node(w.io, m[1], m[2], TRUE, fault)]

\* encode_graph's closure f: edge_count += node.edges.len(), then process,
\* which is encode_node; `w` holds the writer's io, expected, pending and
\* edge_count
WriterCall(w, m, fault) ==
    [w EXCEPT !.io = encode_node(w.io, m[1], m[2], TRUE, fault),
              !.edge_count = @ + Len(m[2].edges)]

\* one pass of pending.drain_filter(..) with f(index, &node)? on each
\* removed entry: an entry of index expected is removed, expected is
\* incremented, and then the entry is written; an Err ends the pass
RECURSIVE drain_filter(_, _, _)
drain_filter(w, rest, fault) ==
    IF rest = <<>> THEN w
    ELSE IF InOrder(Head(rest)[1], w.expected)
    THEN LET w2 == WriterCall([w EXCEPT !.expected = @ + 1], Head(rest), fault)
         IN IF w2.io.res.ok THEN drain_filter(w2, Tail(rest), fault)
            ELSE [w2 EXCEPT !.pending = @ \o Tail(rest)]
    ELSE drain_filter([w EXCEPT !.pending = Append(@, Head(rest))], Tail(rest), fault)

Writer == [io |-> Io, expected |-> expected, pending |-> pending,
           edge_count |-> edge_count]

\* encode_node in the writer takes record_graph.lock(), which blocks while
\* a with_query callback holds it
MirrorFree == ~(record_graph /\ query_lock)

\* the writer returns an Err: the thread's result is set, the Receiver and
\* the messages still in the channel are dropped
WriterFails(w) ==
    /\ SetIo(w.io)
    /\ result' = w.io.res
    /\ edge_count' = w.edge_count
    /\ expected' = w.expected
    /\ pending' = w.pending
    /\ thread' = "done"
    /\ chan' = <<>>
    /\ UNCHANGED trailer

\* top of 'outer: sort pending, then the drain pass
OrderedRecvDrain(fault) ==
    /\ mode = "par"
    /\ thread = "drain"
    /\ MirrorFree \/ \A k \in 1..Len(pending) : pending[k][1] # expected
    /\ \E w0 \in {[Writer EXCEPT !.pending = <<>>]}, sorted \in {sort_by_key(pending)} :
       \E w \in {drain_filter(w0, sorted, fault)} :
          IF w.io.res.ok
          THEN /\ SetIo(w.io)
               /\ edge_count' = w.edge_count
               /\ expected' = w.expected
               /\ pending' = w.pending
               /\ thread' = "recv"
               /\ UNCHANGED <<chan, result, trailer>>
          ELSE WriterFails(w)
    /\ UNCHANGED <<decoderVars, configVars, senderVars, arrivals, send, finished, finish_result,
                   query_lock>>

\* while let Ok((index, node)) = recv.recv(): one message
OrderedRecvMessage(fault) ==
    /\ mode = "par"
    /\ thread = "recv"
    /\ chan # <<>>
    /\ LET m == Head(chan)
       IN IF Ahead(m[1], expected)
          THEN /\ pending' = Append(pending, m)
               /\ chan' = Tail(chan)
               /\ UNCHANGED <<encoderVars, edge_count, result, expected, thread>>
          ELSE IF InOrder(m[1], expected)
          THEN /\ MirrorFree
               /\ \E w \in {WriterCall(Writer, m, fault)} :
                     IF w.io.res.ok
                     THEN /\ SetIo(w.io)
                          /\ edge_count' = w.edge_count
                          /\ expected' = expected + 1
                          /\ thread' = "drain"
                          /\ chan' = Tail(chan)
                          /\ UNCHANGED <<pending, result, trailer>>
                     ELSE WriterFails(w)
          ELSE \* panic!("Unexpected index ..")
               /\ thread' = "panicked"
               /\ chan' = <<>>
               /\ UNCHANGED <<encoderVars, edge_count, result, expected, pending>>
    /\ arrivals' = [arrivals EXCEPT ![Head(chan)[1]] = @ + 1]
    /\ UNCHANGED <<decoderVars, configVars, senderVars, send, finished, finish_result, query_lock>>

\* mutant: an empty channel is taken for a closed one
Disconnected_on_empty == chan = <<>>

\* recv.recv() is an Err: every Sender is dropped and the channel is empty
Disconnected == chan = <<>> /\ ~send

\* recv.recv() is an Err: ordered_recv returns Ok(expected) and encode_graph
\* writes the counts.
OrderedRecvClosed(fault) ==
    /\ mode = "par"
    /\ thread = "recv"
    /\ Disconnected
    /\ thread' = "done"
    /\ result' = TrailerResult(fault)
    /\ trailer' = IF fault # Trailer THEN <<expected, edge_count>> ELSE trailer
    /\ SetIo(IF fault # Trailer THEN encode_counts(Io, expected, edge_count) ELSE Io)
    /\ UNCHANGED <<decoderVars, configVars, senderVars, chan, pending, expected, arrivals,
                   edge_count, send, finished, finish_result, query_lock>>

(* ------------------------------ with_query ----------------------------- *)

\* with_query: record_graph.lock() is held while the callback f runs
WithQueryLock ==
    /\ record_graph /\ ~query_lock
    /\ finished = "no"
    /\ query_lock' = TRUE
    /\ UNCHANGED <<decoderVars, configVars, senderVars, encoderVars, writerVars, edge_count, result,
                   send, finished, finish_result>>

WithQueryUnlock ==
    /\ query_lock
    /\ query_lock' = FALSE
    /\ UNCHANGED <<decoderVars, configVars, senderVars, encoderVars, writerVars, edge_count, result,
                   send, finished, finish_result>>

(* ------------------------ SerializedDepGraph::decode -------------------- *)

\* IntEncodedWithFixedSize::decode of the ENCODED_SIZE bytes bs: the value
\* when it is below 2^31, and its most significant byte otherwise
IntEncodedWithFixedSize_decode(bs) ==
    IF bs[4] < 128 /\ \A k \in 5..ENCODED_SIZE : bs[k] = 0
    THEN SmallCount(bs[1] + 256 * bs[2] + 65536 * bs[3] + 16777216 * bs[4])
    ELSE [big |-> TRUE, top |-> bs[ENCODED_SIZE], val |-> 0]

\* The source's read of n bytes at position pos signals a failure when the
\* bytes are not there.
CanRead(d, pos, n) == pos + n <= Len(d)

\* IndexVec::with_capacity(node_count) for the (u32, u32) offsets and
\* Vec::with_capacity(edge_count) for the u32 targets: a capacity of more
\* than isize::MAX bytes panics (node_count >= 2^60, edge_count >= 2^61); a
\* smaller capacity of 2^31 elements or more is allocated or aborts,
\* as the allocator decides
CapacityOutcomes(nc, ec) ==
    IF (nc.big /\ nc.top >= 16) \/ (ec.big /\ ec.top >= 32) THEN {"panic"}
    ELSE IF nc.big \/ ec.big THEN {"allocated", "panic"}
    ELSE {"allocated"}

\* mutant: the pair holds the start and the number of edges
edge_range_length(start, end) == <<start, end - start>>

\* the (start, end) pair pushed to edge_list_indices
edge_range(start, end) == <<start, end>>

\* for e in 0..len: read_seq_elt, edge_list_data.push(edge); `g` holds the
\* four containers, the position and ok
RECURSIVE read_edges(_, _, _)
read_edges(d, g, len) ==
    IF len = 0 THEN g
    ELSE IF ~CanRead(d, g.position, 1) THEN [g EXCEPT !.ok = FALSE]
    ELSE read_edges(d, [g EXCEPT !.edge_list_data = Append(@, d[g.position + 1]),
                                 !.position = @ + 1], len - 1)

\* one round of the loop: read_struct("NodeInfo", 3, ..): the node, pushed;
\* the fingerprint, pushed; the edges, pushed to edge_list_data, and their
\* (start, end) pushed; the first failed read ends the round with an Err
read_struct_NodeInfo(d, g) ==
    IF ~CanRead(d, g.position, 1) \/ d[g.position + 1] \notin Kinds
    THEN [g EXCEPT !.ok = FALSE]
    ELSE LET g1 == [g EXCEPT !.nodes = Append(@, d[g.position + 1]), !.position = @ + 1]
         IN IF ~CanRead(d, g1.position, 1) THEN [g1 EXCEPT !.ok = FALSE]
            ELSE LET g2 == [g1 EXCEPT !.fingerprints = Append(@, d[g1.position + 1]),
                                      !.position = @ + 1]
                 IN IF ~CanRead(d, g2.position, 1) THEN [g2 EXCEPT !.ok = FALSE]
                    ELSE LET len == d[g2.position + 1]
                             start == Len(g2.edge_list_data)
                             g3 == read_edges(d, [g2 EXCEPT !.position = @ + 1], len)
                         IN IF ~g3.ok THEN g3
                            ELSE [g3 EXCEPT !.edge_list_indices =
                                     Append(@, edge_range(start, Len(g3.edge_list_data)))]

Graph == [nodes |-> nodes, fingerprints |-> fingerprints,
          edge_list_indices |-> edge_list_indices, edge_list_data |-> edge_list_data,
          position |-> position, ok |-> TRUE]

\* mutant: the slice ends one entry early
edge_targets_from_short(g, source) ==
    SubSeq(g.edge_list_data, g.edge_list_indices[source + 1][1] + 1,
           g.edge_list_indices[source + 1][2] - 1)

\* edge_targets_from: edge_list_data[targets.0 .. targets.1]
edge_targets_from(g, source) ==
    SubSeq(g.edge_list_data, g.edge_list_indices[source + 1][1] + 1,
           g.edge_list_indices[source + 1][2])

\* decode, up to the loop: set_position(data.len() - 2 * ENCODED_SIZE), the
\* two counts, set_position(position), the four with_capacity.  With a source
\* shorter than the trailer the subtraction overflows: a panic in a build
\* with overflow checks; without them the position wraps and the read of
\* node_count at it fails.
DecodeTrailer(overflow_checks, allocation) ==
    /\ decoding = "trailer"
    /\ IF Len(data) < 2 * ENCODED_SIZE
       THEN /\ decoding' = IF overflow_checks THEN "panic" ELSE "err"
            /\ UNCHANGED <<node_count, edges_hint>>
       ELSE LET at == Len(data) - 2 * ENCODED_SIZE
                nc == IntEncodedWithFixedSize_decode(
                          SubSeq(data, at + 1, at + ENCODED_SIZE))
                ec == IntEncodedWithFixedSize_decode(
                          SubSeq(data, at + ENCODED_SIZE + 1, Len(data)))
            IN /\ allocation \in CapacityOutcomes(nc, ec)
               /\ node_count' = nc
               /\ edges_hint' = ec
               /\ decoding' = IF allocation = "panic" THEN "panic" ELSE "records"
    /\ UNCHANGED <<data, defect, position, graphVars>>
    /\ UNCHANGED <<configVars, senderVars, encoderVars, writerVars, edge_count, result,
                   send, finished, finish_result, query_lock>>

\* mutant: the loop runs node_count + 1 rounds
InLoop_inclusive == node_count.big \/ Len(edge_list_indices) <= node_count.val

\* for _index in 0..node_count
InLoop == node_count.big \/ Len(edge_list_indices) < node_count.val

\* one round of the loop, with the ? on its result
DecodeRecord ==
    /\ decoding = "records"
    /\ InLoop
    /\ LET g == read_struct_NodeInfo(data, Graph)
       IN /\ nodes' = g.nodes
          /\ fingerprints' = g.fingerprints
          /\ edge_list_indices' = g.edge_list_indices
          /\ edge_list_data' = g.edge_list_data
          /\ position' = g.position
          /\ decoding' = IF g.ok THEN "records" ELSE "err"
    /\ UNCHANGED <<data, defect, node_count, edges_hint>>
    /\ UNCHANGED <<configVars, senderVars, encoderVars, writerVars, edge_count, result,
                   send, finished, finish_result, query_lock>>

\* Ok(SerializedDepGraph { nodes, fingerprints, edge_list_indices, edge_list_data })
DecodeReturn ==
    /\ decoding = "records"
    /\ ~InLoop
    /\ decoding' = "ok"
    /\ UNCHANGED <<data, defect, position, node_count, edges_hint, graphVars>>
    /\ UNCHANGED <<configVars, senderVars, encoderVars, writerVars, edge_count, result,
                   send, finished, finish_result, query_lock>>

\* the file an encoder left after finish returned Ok is given to decode
DecodeFile ==
    /\ decoding = "idle"
    /\ finished = "returned" /\ finish_result.ok
    /\ data' = encoder
    /\ decoding' = "trailer"
    /\ UNCHANGED <<defect, position, node_count, edges_hint, graphVars>>
    /\ UNCHANGED <<configVars, senderVars, encoderVars, writerVars, edge_count, result,
                   send, finished, finish_result, query_lock>>

(* ---------------------------- specification ---------------------------- *)

\* The records the concurrent callers submit: per index one record without
\* edges and one whose edges are the first indices assigned.
SampleNodes(assigned) ==
    LET m == IF assigned < MaxEdges THEN assigned ELSE MaxEdges
    IN {[node |-> 11, fingerprint |-> FingerprintOf(11), edges |-> <<>>],
        [node |-> 12, fingerprint |-> FingerprintOf(12),
         edges |-> [k \in 1..m |-> k - 1]]}

Init ==
    /\ mode \in {"sync", "par"}
    /\ callers = Producers
    /\ record_graph \in BOOLEAN
    /\ record_stats \in BOOLEAN
    /\ InitEncoder
    /\ InitDecoder

\* the step's fault on the record a caller's send writes
SendSyncWrite(p) == \E fault \in FaultsOn(<<<<index[p], arg[p]>>>>) : SendSyncLocked(p, fault)

Finish == \E fault \in TrailerFaults : FinishSync(fault)

ThreadDrain == \E fault \in FaultsOn(pending) : OrderedRecvDrain(fault)

ThreadMessage ==
    \E fault \in FaultsOn(IF chan = <<>> THEN <<>> ELSE <<Head(chan)>>) :
        OrderedRecvMessage(fault)

ThreadClosed == \E fault \in TrailerFaults : OrderedRecvClosed(fault)

\* what the encoder does once the records are given
Encoder ==
    \/ \E p \in callers : SendSyncWrite(p)
    \/ \E p \in callers : SendParChannel(p)
    \/ Finish
    \/ FinishDrop
    \/ FinishJoin
    \/ ThreadDrain
    \/ ThreadMessage
    \/ ThreadClosed

Next ==
    \/ \E p \in callers, node \in SampleNodes(counter) : SendSyncFetchAdd(p, node)
    \/ \E p \in callers, node \in SampleNodes(counter) : SendParFetchAdd(p, node)
    \/ Encoder
    \/ WithQueryLock
    \/ WithQueryUnlock

\* concurrent callers of one encoder, in either build
Spec == Init /\ [][Next]_vars

(* ------------------ ordered_recv on an arbitrary channel ---------------- *)

\* the record a message of index i carries
StageNode(i) ==
    [node |-> 11, fingerprint |-> FingerprintOf(11),
     edges |-> [k \in 1..(IF i < MaxEdges THEN i ELSE MaxEdges) |-> k - 1]]

\* the number of messages ordered_recv has received
RECURSIVE Received(_)
Received(i) == IF i < 0 THEN 0 ELSE arrivals[i] + Received(i - 1)

\* recv: mpsc::Receiver<(DepNodeIndex, NodeInfo<K>)> is a parameter of
\* ordered_recv: some Sender puts a message of index i in the channel,
\* whatever was sent before
ChannelDeliver(i) ==
    /\ mode = "par"
    /\ send /\ ~ReceiverDropped
    /\ Received(MaxNodes) + Len(chan) < MaxArrivals
    /\ chan' = Append(chan, <<i, StageNode(i)>>)
    /\ UNCHANGED <<decoderVars, configVars, senderVars, encoderVars, thread, pending,
                   expected, arrivals, edge_count, result, send, finished, finish_result,
                   query_lock>>

\* encode_graph with its writer, no GraphEncoder::send in front of the channel
InitStage ==
    /\ mode = "par"
    /\ callers = {}
    /\ record_graph = FALSE
    /\ record_stats = FALSE
    /\ InitEncoder
    /\ InitDecoder

NextStage ==
    \/ \E i \in 0..(MaxNodes - 1) : ChannelDeliver(i)
    \/ FinishDrop
    \/ FinishJoin
    \/ ThreadDrain
    \/ ThreadMessage
    \/ ThreadClosed

SpecStage == InitStage /\ [][NextStage]_vars

(* ------------- the build with parallel_compiler, scheduled fairly ------- *)

\* three producers, each send carrying the record StageNode gives its index
InitPar ==
    /\ mode = "par"
    /\ callers = Producers
    /\ record_graph \in BOOLEAN
    /\ record_stats = FALSE
    /\ InitEncoder
    /\ InitDecoder

NextPar ==
    \/ \E p \in callers : SendParFetchAdd(p, StageNode(counter))
    \/ \E p \in callers : SendParChannel(p)
    \/ FinishDrop
    \/ FinishJoin
    \/ ThreadDrain
    \/ ThreadMessage
    \/ ThreadClosed
    \/ WithQueryLock
    \/ WithQueryUnlock

\* the writer is a thread of its own and the thread in finish is not held
\* back: each of them takes its step when the step stays possible
Fairness ==
    /\ WF_vars(ThreadDrain)
    /\ WF_vars(ThreadMessage)
    /\ WF_vars(ThreadClosed)
    /\ WF_vars(FinishJoin)

SpecPar == InitPar /\ [][NextPar]_vars /\ Fairness

(* ------------------- one caller, then decode of the file ---------------- *)

\* the encoder-side state GraphEncoder::new leaves
NewIo == [encoder |-> <<>>, written |-> <<>>, first_fail |-> -1, attempts |-> <<>>,
          graph |-> <<>>, stats |-> NoStats, res |-> Ok]

\* The build without parallel_compiler run by one caller on the calls cs,
\* no write failing: per call the fetch_add, the edge count and the write
\* under the status lock.
RECURSIVE SyncSends(_)
SyncSends(cs) ==
    IF cs = <<>>
    THEN [io |-> NewIo, counter |-> 0, edge_count |-> 0, returned |-> {}]
    ELSE LET s == SyncSends(SubSeq(cs, 1, Len(cs) - 1))
             node == cs[Len(cs)]
             i == fetch_add(s.counter)
         IN [io |-> and_then_encode_node(s.io.res, s.io, i.old, node, TRUE, NoFault),
             counter |-> i.new,
             edge_count |-> s.edge_count + Len(node.edges),
             returned |-> s.returned \cup {<<i.old, node>>}]

\* ... followed by finish: what every send returned, what finish returned
\* and the sink
SyncSession(cs) ==
    LET s == SyncSends(cs)
    IN [returned |-> s.returned,
        finish_result |-> IF s.io.res.ok THEN TrailerResult(NoFault) ELSE s.io.res,
        encoder |-> IF s.io.res.ok
                    THEN encode_counts(s.io, s.counter, s.edge_count).encoder
                    ELSE s.io.encoder]

NoRepeat(t) == \A a, b \in 1..Len(t) : a # b => t[a] # t[b]

\* The records the single caller submits: a descriptor with its
\* fingerprint, and any list of at most MaxEdges distinct indices assigned
\* before (no forward reference), in any order.
SeqNodesOf ==
    [assigned \in 0..MaxNodes |->
        {[node |-> k, fingerprint |-> FingerprintOf(k), edges |-> e] :
            k \in Kinds,
            e \in {t \in SeqsUpTo(0..(assigned - 1), MaxEdges) : NoRepeat(t)}}]

SeqNodes(assigned) == SeqNodesOf[assigned]

\* one caller, either build, no observers
InitSeq ==
    /\ mode \in {"sync", "par"}
    /\ callers = {1}
    /\ record_graph = FALSE
    /\ record_stats = FALSE
    /\ InitEncoder
    /\ InitDecoder

Decode ==
    \/ \E overflow_checks \in BOOLEAN, allocation \in {"allocated", "panic"} :
          DecodeTrailer(overflow_checks, allocation)
    \/ DecodeRecord
    \/ DecodeReturn

NextSeq ==
    \/ \E p \in callers, node \in SeqNodes(counter) : SendSyncFetchAdd(p, node)
    \/ \E p \in callers, node \in SeqNodes(counter) : SendParFetchAdd(p, node)
    \/ Encoder
    \/ DecodeFile
    \/ Decode

SpecSeq == InitSeq /\ [][NextSeq]_vars

(* ------------------------ decode of a defective file -------------------- *)

\* the sequences of n records a caller can submit
RECURSIVE RecordSeqs(_)
RecordSeqs(n) ==
    IF n = 0 THEN {<<>>}
    ELSE {Append(rs, r) : rs \in RecordSeqs(n - 1), r \in SeqNodes(n - 1)}

RECURSIVE Records_encode(_)
Records_encode(rs) ==
    IF rs = <<>> THEN <<>> ELSE NodeInfo_encode(Head(rs)) \o Records_encode(Tail(rs))

RECURSIVE EdgeTotal(_)
EdgeTotal(rs) == IF rs = <<>> THEN 0 ELSE Len(Head(rs).edges) + EdgeTotal(Tail(rs))

\* the file of the records rs with the trailer (n, e)
FileOf(rs, n, e) ==
    Records_encode(rs) \o IntEncodedWithFixedSize_encode(n)
                       \o IntEncodedWithFixedSize_encode(e)

AllRecordSeqs == UNION {RecordSeqs(n) : n \in 0..MaxNodes}

\* a file cut short: shorter than the trailer, or cut inside a record or
\* inside the trailer
Truncated ==
    UNION {{SubSeq(FileOf(rs, Len(rs), EdgeTotal(rs)), 1, n) :
               n \in 0..(Len(Records_encode(rs)) + 2 * ENCODED_SIZE - 1)} :
           rs \in AllRecordSeqs}

\* a trailer whose node_count exceeds the records present
NodeCountRaised ==
    {FileOf(rs, Len(rs) + d, EdgeTotal(rs)) : rs \in AllRecordSeqs, d \in 1..2}

\* a record whose descriptor byte is no descriptor
Malformed ==
    UNION {{FileOf([rs EXCEPT ![k].node = 0], Len(rs), EdgeTotal(rs)) : k \in 1..Len(rs)} :
           rs \in AllRecordSeqs}

\* the files an encoder writes
Sound == {FileOf(rs, Len(rs), EdgeTotal(rs)) : rs \in AllRecordSeqs}

\* decode is given a file of an encoder, or a defective one
InitDecode ==
    /\ mode = "sync"
    /\ callers = {}
    /\ record_graph = FALSE
    /\ record_stats = FALSE
    /\ InitEncoder
    /\ \E d \in {"none", "truncated", "node_count", "malformed"} :
          /\ defect = d
          /\ data \in CASE d = "none" -> Sound
                        [] d = "truncated" -> Truncated
                        [] d = "node_count" -> NodeCountRaised
                        [] d = "malformed" -> Malformed
    /\ decoding = "trailer"
    /\ position = 0
    /\ node_count = SmallCount(0)
    /\ edges_hint = SmallCount(0)
    /\ nodes = <<>>
    /\ fingerprints = <<>>
    /\ edge_list_indices = <<>>
    /\ edge_list_data = <<>>

SpecDecode == InitDecode /\ [][Decode]_vars

(* ------------------------- encoder properties -------------------------- *)

\* the indices of the records in the sink, in the order they were written
WrittenRecords == SelectSeq(written, LAMBDA x : x # Trailer)

\* the NodeInfo whose send returned index i
ReturnedNode(i) == (CHOOSE r \in returned : r[1] = i)[2]

ReturnedIndices == {r[1] : r \in returned}

\* the bytes of the records of the given indices, in that order
RECURSIVE RecordBytes(_)
RecordBytes(is) ==
    IF is = <<>> THEN <<>>
    ELSE NodeInfo_encode(ReturnedNode(Head(is))) \o RecordBytes(Tail(is))

RECURSIVE EdgeSum(_)
EdgeSum(is) ==
    IF is = <<>> THEN 0 ELSE Len(ReturnedNode(Head(is)).edges) + EdgeSum(Tail(is))

\* no send call is running
Quiescent == \A p \in callers : pc[p] # "assigned"

\* C1: in the parallel build the writer hands the records to the codec in
\* Dense Index order from 0: the k-th record in the sink is the one whose send
\* returned index k-1 (counting from 1), whatever the order of arrival at
\* the channel.
C1_ParWritesInIndexOrder ==
    mode = "par" =>
        /\ \A k \in 1..Len(WrittenRecords) :
              WrittenRecords[k] = k - 1 /\ (k - 1) \in ReturnedIndices
        /\ \A k \in 1..Len(written) : written[k] = Trailer => k = Len(written)
        /\ SubSeq(encoder, 1, Len(RecordBytes(WrittenRecords))) = RecordBytes(WrittenRecords)

\* C1 witness: indices 2 and 1 reached the writer, in that order, before
\* index 0, and record 0 is the only one written
C1_Witness ==
    /\ mode = "par" /\ thread = "drain"
    /\ written = <<0>>
    /\ Len(pending) = 2 /\ pending[1][1] = 2 /\ pending[2][1] = 1

\* C2: when no send call is running, the N send calls that have returned
\* have returned exactly the indices 0..N-1.
C2_ReturnedIndicesDense ==
    Quiescent => ReturnedIndices = 0..(Cardinality(returned) - 1)

\* C3: when finish has returned Ok, every record whose send returned is in
\* the sink exactly once, the trailer is the last thing written, and the
\* sink holds nothing else.
C3_FinishOkAllWritten ==
    (finished = "returned" /\ finish_result.ok) =>
        /\ Len(written) = Cardinality(returned) + 1
        /\ written[Len(written)] = Trailer
        /\ \A r \in returned :
              Cardinality({k \in 1..Len(WrittenRecords) : WrittenRecords[k] = r[1]}) = 1
        /\ Len(encoder) = Len(RecordBytes(WrittenRecords)) + 2 * ENCODED_SIZE
        /\ SubSeq(encoder, 1, Len(encoder) - 2 * ENCODED_SIZE) = RecordBytes(WrittenRecords)

\* C3 witness: finish returned Ok after MaxNodes sends, in the parallel build
C3_Witness ==
    /\ mode = "par" /\ finished = "returned" /\ finish_result.ok
    /\ Cardinality(returned) = MaxNodes

\* C4: a trailer in the sink holds the number of records in the sink, which
\* is the number of send calls that returned, and the sum of their edge
\* list lengths.
C4_TrailerCounts ==
    (written # <<>> /\ written[Len(written)] = Trailer) =>
        /\ SubSeq(encoder, Len(encoder) - 2 * ENCODED_SIZE + 1, Len(encoder))
              = IntEncodedWithFixedSize_encode(Len(WrittenRecords))
                \o IntEncodedWithFixedSize_encode(EdgeSum(WrittenRecords))
        /\ Len(WrittenRecords) = Cardinality(returned)
        /\ trailer = <<Len(WrittenRecords), EdgeSum(WrittenRecords)>>

\* C4 witness: a trailer that counts three records and at least three edges
C4_Witness ==
    /\ written # <<>> /\ written[Len(written)] = Trailer
    /\ trailer # <<>> /\ trailer[1] = MaxNodes /\ trailer[2] >= MaxNodes

\* C5: when the write of a record has failed, finish returns the error of
\* the first write that failed, and the sink holds no trailer.
C5_FinishReturnsFirstError ==
    (finished = "returned" /\ first_fail # -1) =>
        /\ finish_result = Err(first_fail)
        /\ trailer = <<>>
        /\ \A k \in 1..Len(written) : written[k] # Trailer

\* C5 witness: finish has returned after the write of record 1 failed and
\* a later record was submitted
C5_Witness ==
    /\ finished = "returned" /\ first_fail = 1
    /\ Cardinality(returned) = MaxNodes

\* C6: in the synchronous build the records reach the sink in Dense Index
\* order, under any interleaving of the callers.
C6_SyncWritesInIndexOrder ==
    mode = "sync" => \A k \in 1..Len(WrittenRecords) : WrittenRecords[k] = k - 1

\* C7: no send call aborts: after a write has failed, every send call still
\* returns its index.
C7_SendNeverAborts == \A p \in callers : pc[p] # "panicked"

(* ------------------------- decoder properties -------------------------- *)

DecodeEnded == decoding \in {"ok", "err", "panic"}

\* C8: decode of the file that one caller's sends and a successful finish
\* left returns a graph whose nodes[i], fingerprints[i] and
\* edge_targets_from(i) are the descriptor, the fingerprint and the edge
\* list, in order, of the record whose send returned i.
C8_RoundTrip ==
    DecodeEnded =>
        /\ decoding = "ok"
        /\ Len(nodes) = Cardinality(returned)
        /\ Len(fingerprints) = Cardinality(returned)
        /\ \A i \in 0..(Cardinality(returned) - 1) :
              /\ nodes[i + 1] = ReturnedNode(i).node
              /\ fingerprints[i + 1] = ReturnedNode(i).fingerprint
              /\ edge_targets_from(Graph, i) = ReturnedNode(i).edges

\* C8 witness: a decoded graph of MaxNodes nodes, written by the parallel
\* build, whose last node has its edges in decreasing order
C8_Witness ==
    /\ decoding = "ok" /\ mode = "par"
    /\ Len(nodes) = MaxNodes
    /\ edge_targets_from(Graph, MaxNodes - 1) = <<1, 0>>

\* the end offset of node i (from 0) when every record before it and it
\* are laid out one after the other
RECURSIVE EndOf(_)
EndOf(i) == IF i < 0 THEN 0 ELSE EndOf(i - 1) + Len(ReturnedNode(i).edges)

\* C9: in a decoded graph edge_list_indices has node_count entries,
\* edge_list_data has edge_count entries, and the pair of node i is
\* (end of node i-1, that end plus the out-degree of i), from 0 for the
\* first node to edge_count for the last.
C9_EdgeStoreContiguous ==
    decoding = "ok" =>
        /\ ~node_count.big /\ ~edges_hint.big
        /\ Len(edge_list_indices) = node_count.val
        /\ Len(edge_list_data) = edges_hint.val
        /\ node_count.val = Cardinality(returned)
        /\ \A i \in 0..(node_count.val - 1) :
              edge_list_indices[i + 1] = <<EndOf(i - 1), EndOf(i)>>
        /\ EndOf(node_count.val - 1) = edges_hint.val

\* C9 witness: A without edges, B -> A, C -> A, B
C9_Witness ==
    /\ decoding = "ok"
    /\ edge_list_indices = <<<<0, 0>>, <<0, 1>>, <<1, 3>>>>
    /\ edge_list_data = <<0, 0, 1>>
    /\ edge_targets_from(Graph, 2) = <<0, 1>>

\* C10: decode of a defective source ends in a returned error: it does not
\* panic and it returns no graph.
C10_DefectiveIsErr == (defect # "none" /\ DecodeEnded) => decoding = "err"

(* ------------------------ the two builds compared ---------------------- *)

\* what the session showed at the public contract
Session == [returned |-> returned, finish_result |-> finish_result, encoder |-> encoder]

\* finish returned and no write failed, of a record or of the trailer
FaultFree == first_fail = -1 /\ finish_result # Err(Trailer) /\ result # Err(Trailer)

\* C11: with one caller and no write fault, a session of either build ends
\* with what the build without parallel_compiler gives on the same calls:
\* the same index returned by each send, the same finish result, the same
\* bytes in the sink; and no send or finish aborts.
C11_BuildsInterchangeable ==
    /\ (finished = "returned" /\ FaultFree) => Session = SyncSession(calls)
    /\ first_fail = -1 =>
          /\ finished # "panicked"
          /\ \A p \in callers : pc[p] # "panicked"

\* C11 witness: the build with parallel_compiler ended a session of MaxNodes
\* calls, the second with one edge, without a fault
C11_Witness ==
    /\ mode = "par" /\ finished = "returned" /\ FaultFree
    /\ Len(calls) = MaxNodes /\ Len(calls[2].edges) = 1
    /\ encoder = SyncSession(calls).encoder

(* ------------------------------ empty graph ---------------------------- *)

\* C12: a session without a send call: finish returns Ok unless the write of
\* the trailer itself fails, the sink then holds the trailer (0, 0) and
\* nothing else, and decode of that file returns four empty containers.
C12_EmptyGraph ==
    calls = <<>> =>
        /\ finished # "panicked"
        /\ (finished = "returned" /\ finish_result # Err(Trailer)) =>
              /\ finish_result = Ok
              /\ written = <<Trailer>>
              /\ trailer = <<0, 0>>
              /\ encoder = IntEncodedWithFixedSize_encode(0) \o IntEncodedWithFixedSize_encode(0)
        /\ DecodeEnded =>
              /\ decoding = "ok"
              /\ node_count = SmallCount(0) /\ edges_hint = SmallCount(0)
              /\ nodes = <<>> /\ fingerprints = <<>>
              /\ edge_list_indices = <<>> /\ edge_list_data = <<>>

\* C12 witness: the file of a session without a send call has been decoded
C12_Witness ==
    /\ calls = <<>> /\ finished = "returned" /\ finish_result = Ok
    /\ Len(data) = 2 * ENCODED_SIZE
    /\ decoding = "ok"

(* ------------------------------- observers ---------------------------- *)

\* the record of index r[1] is in the mirror
Mirrored(r) == \E k \in 1..Len(graph) : graph[k] = <<r[1], r[2].node, r[2].edges>>

\* C13: with the mirror enabled, once finish has returned the mirror holds
\* the (index, descriptor, edges) of every record whose send returned.
C13_MirrorHoldsEveryRecord ==
    (record_graph /\ finished = "returned") => \A r \in returned : Mirrored(r)

(* --------------------------- after a write failure --------------------- *)

\* the indices handed to node.encode
Attempted == {attempts[k] : k \in 1..Len(attempts)}

\* C16: after the first write failure the failure stays the session's first
\* error, and a write is still attempted for every record submitted: once
\* finish has returned, every record whose send returned was handed to the
\* codec.
C16_WritesStillAttempted ==
    (finished = "returned" /\ first_fail # -1) =>
        /\ finish_result = Err(first_fail)
        /\ \A r \in returned : r[1] \in Attempted

(* ------------------------------- statistics ---------------------------- *)

\* the sum of f[k] over the kinds ks
RECURSIVE SumOver(_, _)
SumOver(f, ks) ==
    IF ks = {} THEN 0
    ELSE LET k == CHOOSE x \in ks : TRUE IN f[k] + SumOver(f, ks \ {k})

\* C20: with statistics enabled, after finish returned Ok the totals of the
\* statistics are the two counts of the trailer, and each total is the sum
\* of the per-kind counters.
C20_StatsAgreeWithTrailer ==
    (record_stats /\ finished = "returned" /\ finish_result.ok) =>
        /\ trailer = <<stats.total_node_count, stats.total_edge_count>>
        /\ stats.total_node_count
              = SumOver([k \in Kinds |-> stats.stats[k].node_counter], Kinds)
        /\ stats.total_edge_count
              = SumOver([k \in Kinds |-> stats.stats[k].edge_counter], Kinds)

\* C20 witness: statistics of a finished session of MaxNodes records of both
\* kinds, with edges
C20_Witness ==
    /\ record_stats /\ finished = "returned" /\ finish_result.ok
    /\ stats.total_node_count = MaxNodes
    /\ stats.total_edge_count > 0
    /\ \A k \in Kinds : stats.stats[k].node_counter > 0

(* ------------------------------ termination ---------------------------- *)

\* C17: in the build with parallel_compiler, once finish has dropped the
\* Sender the writer consumes what is left, ends, and finish returns; the
\* writer ends only on a failed write or when every Sender is dropped, and
\* when it ends without a failure nothing is left in the channel or in
\* pending.
C17_WriterTerminates ==
    /\ (finished = "dropped") ~> (finished = "returned")
    /\ []((thread = "done" /\ first_fail = -1) =>
             (~send /\ chan = <<>> /\ pending = <<>>
              /\ expected = Cardinality(returned)))

\* C17 witness: finish has returned after the writer received MaxNodes
\* messages, the last of them after the Sender was dropped
C17_Witness ==
    /\ mode = "par" /\ finished = "returned" /\ thread = "done"
    /\ first_fail = -1
    /\ \A i \in 0..(MaxNodes - 1) : arrivals[i] = 1

(* --------------------------- the Ordering Stage ------------------------ *)

\* a message of an index already received has been received
DuplicateReceived == \E i \in 0..MaxNodes : arrivals[i] > 1

\* C14: when ordered_recv receives an index it has received before, it
\* panics: it does not go on to return a node count.
C14_DuplicateAborts == DuplicateReceived => thread = "panicked"

\* C15: a message whose index is less than expected makes ordered_recv
\* panic in that step: the record is not handed to the codec, the sink,
\* expected and the trailer stay as they are, and they stay so afterwards.
C15_StaleArrivalAborts ==
    [][/\ (thread = "recv" /\ chan # <<>> /\ Head(chan)[1] < expected
            /\ arrivals' # arrivals) =>
              (thread' = "panicked"
               /\ UNCHANGED <<encoder, written, attempts, expected, trailer>>)
       /\ thread = "panicked" =>
              (thread' = "panicked" /\ trailer = <<>>
               /\ UNCHANGED <<encoder, written, attempts, expected, trailer>>)]_vars

\* C15 witness: index 0 arrived again after records 0 and 1 were written
C15_Witness ==
    /\ thread = "panicked"
    /\ written = <<0, 1>> /\ expected = 2
    /\ arrivals[0] = 2

\* each of the indices 0..n-1 was received once and no other index was
DeliveredOnce(n) == \A i \in 0..MaxNodes : arrivals[i] = (IF i < n THEN 1 ELSE 0)

\* C18: when ordered_recv ends on a closed channel after receiving each of
\* 0..N-1 once, in any order, with no failed write, pending is empty,
\* expected is N and the N records are in the sink.
C18_ClosedChannelLeavesNoGap ==
    \A n \in 0..MaxNodes :
        (thread = "done" /\ first_fail = -1 /\ DeliveredOnce(n)) =>
            /\ pending = <<>>
            /\ expected = n
            /\ WrittenRecords = [k \in 1..n |-> k - 1]
            /\ trailer # <<>> => trailer[1] = n

\* C18 witness: MaxNodes indices were received, each once, the channel
\* closed and the trailer was written
C18_Witness ==
    /\ thread = "done" /\ first_fail = -1 /\ DeliveredOnce(MaxNodes)
    /\ Len(attempts) = MaxNodes
    /\ trailer # <<>>

\* C19: while ordered_recv waits in recv.recv() and no index was received
\* twice, every index in pending is greater than expected, none of them is
\* in the sink, and the sink holds the records 0..expected-1.
C19_PendingAheadOfExpected ==
    (thread = "recv" /\ ~DuplicateReceived) =>
        /\ \A k \in 1..Len(pending) : pending[k][1] > expected
        /\ \A k \in 1..Len(pending), j \in 1..Len(written) : pending[k][1] # written[j]
        /\ written = [k \in 1..expected |-> k - 1]

\* C19 witness: the writer waits for index 1 with record 0 written and
\* index 2 held in pending
C19_Witness ==
    /\ thread = "recv" /\ ~DuplicateReceived
    /\ expected = 1 /\ written = <<0>>
    /\ Len(pending) = 1 /\ pending[1][1] = 2

====
